---- MODULE Spec2Model ----
(***************************************************************************)
(* Model of the Telegram channel scraper: the time-boxed                   *)
(* capture -> deduplicate -> append loop of main.go and of its refactored  *)
(* form (scrapeChannel / collectPosts / processPost / writePostToFile).    *)
(* The output file is modelled byte by byte, a byte being a one-character  *)
(* string, so that partial writes and line-by-line reading are explicit.   *)
(***************************************************************************)
EXTENDS Integers, Sequences, FiniteSets, TLC

\* ------------------------------------------------------------------------
\* Bounds of the model
\* ------------------------------------------------------------------------
\* longest snapshot (contentList) a capture call returns
MaxSnap == 2
\* the longest scroll duration of a run followed to its end, in minutes
MaxMinutes == 1
\* appends that fail in one run
MaxFailures == 1
\* answers on standard input when the scroll duration is asked for
MaxInputs == 2

\* ------------------------------------------------------------------------
\* Bytes and texts
\* ------------------------------------------------------------------------
NL == "\n"
QUOTE == "\""
BSLASH == "\\"

\* The post texts (innerText of a message element) a capture may return.
\* The third one is a two-line post: innerText keeps the line break.
TextA == <<"A">>
TextB == <<"B">>
TextC == <<"C", NL, "D">>
PostTexts == {TextA, TextB, TextC}

RECURSIVE SeqsUpTo(_, _)
SeqsUpTo(S, n) ==
    IF n = 0 THEN {<<>>}
    ELSE LET shorter == SeqsUpTo(S, n - 1)
         IN  shorter \cup {Append(s, x) : s \in shorter, x \in S}

\* every contentList a capture call may return: texts may repeat
Snapshots == SeqsUpTo(PostTexts, MaxSnap)

Range(s) == {s[i] : i \in DOMAIN s}

\* ------------------------------------------------------------------------
\* json.Marshal(Post{Text: content})
\* ------------------------------------------------------------------------
\* encoding/json string escaping of the bytes of the model's alphabet
EscapeByte(c) ==
    IF c = QUOTE THEN <<BSLASH, QUOTE>>
    ELSE IF c = BSLASH THEN <<BSLASH, BSLASH>>
    ELSE IF c = NL THEN <<BSLASH, "n">>
    ELSE <<c>>

RECURSIVE Escape(_)
Escape(s) == IF s = <<>> THEN <<>> ELSE EscapeByte(Head(s)) \o Escape(Tail(s))

\* {"text":"
RecordPrefix == <<"{", QUOTE, "t", "e", "x", "t", QUOTE, ":", QUOTE>>
\* "}
RecordSuffix == <<QUOTE, "}">>

MarshalNoEscape(content) == RecordPrefix \o content \o RecordSuffix

\* the bytes json.Marshal returns for Post{Text: content}; it has no error
\* for a struct with one string field
Marshal(content) == RecordPrefix \o Escape(content) \o RecordSuffix

\* ------------------------------------------------------------------------
\* Reading the file back line by line
\* ------------------------------------------------------------------------
Bad == <<"bad">>

\* the string a JSON string body stands for, or Bad when it is not one
RECURSIVE Unescape(_)
Unescape(s) ==
    IF s = <<>> THEN <<>>
    ELSE IF Head(s) = BSLASH THEN
        IF Len(s) < 2 THEN Bad
        ELSE LET rest == Unescape(SubSeq(s, 3, Len(s)))
                 c == IF s[2] = "n" THEN NL
                      ELSE IF s[2] \in {QUOTE, BSLASH} THEN s[2]
                      ELSE "bad"
             IN  IF c = "bad" \/ rest = Bad THEN Bad ELSE <<c>> \o rest
    ELSE IF Head(s) \in {QUOTE, NL} THEN Bad
    ELSE LET rest == Unescape(Tail(s))
         IN  IF rest = Bad THEN Bad ELSE <<Head(s)>> \o rest

\* the text of a line that is one {"text": ...} object, or Bad
ParseRecord(line) ==
    LET p == Len(RecordPrefix)
        q == Len(RecordSuffix)
    IN  IF /\ Len(line) >= p + q
           /\ SubSeq(line, 1, p) = RecordPrefix
           /\ SubSeq(line, Len(line) - q + 1, Len(line)) = RecordSuffix
        THEN Unescape(SubSeq(line, p + 1, Len(line) - q))
        ELSE Bad

\* the position of the first newline of f at or after position i, 0 when
\* there is none
LineEnd(f, i) ==
    IF \E k \in i..Len(f) : f[k] = NL
    THEN CHOOSE k \in i..Len(f) : f[k] = NL /\ \A m \in i..(k - 1) : f[m] # NL
    ELSE 0

\* the newline-terminated lines of f from position i on, in order, without
\* their newline
RECURSIVE LinesFrom(_, _)
LinesFrom(f, i) ==
    LET e == LineEnd(f, i)
    IN  IF e = 0 THEN <<>>
        ELSE <<SubSeq(f, i, e - 1)>> \o LinesFrom(f, e + 1)

Lines(f) == LinesFrom(f, 1)

\* what follows the last newline of f: empty when f ends with a newline
RECURSIVE FragmentFrom(_, _)
FragmentFrom(f, i) ==
    LET e == LineEnd(f, i)
    IN  IF e = 0 THEN SubSeq(f, i, Len(f)) ELSE FragmentFrom(f, e + 1)

Fragment(f) == FragmentFrom(f, 1)

IsText(x) == x # Bad

\* the texts of the records of f: its complete lines that parse, in order
Records(f) ==
    LET ls == Lines(f)
    IN  SelectSeq([k \in DOMAIN ls |-> ParseRecord(ls[k])], IsText)

\* ------------------------------------------------------------------------
\* State
\* ------------------------------------------------------------------------
VARIABLES
    variant,      \* which program runs: "monolith" (main.go) or "refactored"
    pc,           \* position of the single thread of the run
    outcome,      \* "running", "completed" (main returned) or "fatal" (log.Fatal)
    now,          \* time.Now(), in minutes since the start of the run
    scrollDuration, \* minutes read from the user, 0 before the prompt
    endTime,      \* the deadline, 0 before it is computed
    postSet,      \* the Item Store: texts t with postSet[t] = true
    contentList,  \* the snapshot of the cycle in progress
    idx,          \* position of the range loop in contentList
    fileExists,   \* the output path names a file
    file,         \* the bytes of the file at the output path
    fileState,    \* the handle: "unopened", "open" or "closed"
    prior,        \* history: the bytes at the output path before the run
    firstSeen,    \* history: distinct texts of the successful snapshots, in order
    failed,       \* history: texts whose append returned an error
    captured,     \* history: a capture call has been issued
    captureErr,   \* history: a capture call returned an error
    handshakeErr, \* history: the handshake returned an error
    reported,     \* the count of the last progress line, -1 before the first
    stdin,        \* what the calls of fmt.Scanf("%d") to come will return
    handshakeOk,  \* history: the handshake returned without an error
    atCapture     \* history: the store and the file when the capture call of
                  \* the cycle in progress was issued, and whether it failed

vars == <<variant, pc, outcome, now, scrollDuration, endTime, postSet,
          contentList, idx, fileExists, file, fileState, prior, firstSeen,
          failed, captured, captureErr, handshakeErr, reported, stdin,
          handshakeOk, atCapture>>

Variants == {"monolith", "refactored"}

\* What the output path may hold before the run opens it: nothing (no such
\* file), the records of an earlier run that got the same name, or such a
\* file ending in an unterminated record.
PriorContents ==
    {<<>>, Marshal(TextA) \o <<NL>>, Marshal(TextB) \o <<NL>> \o Marshal(TextA)}

\* the range asked for: "Please enter a number between 1 and 60"
RangeLow == 1
RangeHigh == 60

\* What one call of fmt.Scanf("%d", &number) may return: an error (no
\* integer could be read; number keeps its zero value), or no error and the
\* integer read, which is in range or next to it on either side.
ScanOutcomes(inRange) ==
    {[err |-> TRUE, number |-> 0]}
        \cup {[err |-> FALSE, number |-> n] :
                 n \in inRange \cup {RangeLow - 1, RangeHigh + 1}}

\* standard input of the runs that are followed to their end: the answers
\* in range are 1..MaxMinutes
Stdins == SeqsUpTo(ScanOutcomes(RangeLow..MaxMinutes), MaxInputs)

\* standard input of the runs that are followed up to the loop: the answers
\* in range are the two ends of the range
PromptStdins == SeqsUpTo(ScanOutcomes({RangeLow, RangeHigh}), MaxInputs)

InitWith(inputs) ==
    /\ variant \in Variants
    /\ pc = "start"
    /\ outcome = "running"
    /\ now = 0
    /\ scrollDuration = 0
    /\ endTime = 0
    /\ postSet = {}
    /\ contentList = <<>>
    /\ idx = 1
    /\ prior \in PriorContents
    /\ file = prior
    /\ fileExists = (prior # <<>>)
    /\ fileState = "unopened"
    /\ firstSeen = <<>>
    /\ failed = {}
    /\ captured = FALSE
    /\ captureErr = FALSE
    /\ handshakeErr = FALSE
    /\ reported = -1
    /\ stdin \in inputs
    /\ handshakeOk = FALSE
    /\ atCapture = [store |-> {}, file |-> prior, err |-> FALSE]

Init == InitWith(Stdins)

\* log.Fatal / log.Fatalf: os.Exit(1), deferred calls do not run
Fatal ==
    /\ pc' = "exit"
    /\ outcome' = "fatal"

\* ------------------------------------------------------------------------
\* Set-up: configuration, handshake, output directory, output file
\* ------------------------------------------------------------------------
\* main.go: godotenv.Load, then the channel name
LoadEnv ==
    /\ variant = "monolith"
    /\ pc = "start"
    /\ \/ /\ pc' = "handshake"
          /\ outcome' = outcome
       \/ Fatal
    /\ UNCHANGED <<variant, now, scrollDuration, endTime, postSet,
                   contentList, idx, fileExists, file, fileState, prior,
                   firstSeen, failed, captured, captureErr, handshakeErr,
                   reported, stdin, handshakeOk, atCapture>>

\* refactored: NewConfig up to its call of readScrollDuration; main turns
\* the error of godotenv.Load into log.Fatalf
NewConfig ==
    /\ variant = "refactored"
    /\ pc = "start"
    /\ \/ /\ pc' = "readNumber"
          /\ outcome' = outcome
       \/ Fatal
    /\ UNCHANGED <<variant, now, scrollDuration, endTime, postSet,
                   contentList, idx, fileExists, file, fileState, prior,
                   firstSeen, failed, captured, captureErr, handshakeErr,
                   reported, stdin, handshakeOk, atCapture>>

HandshakeErrorLogged ==
    /\ pc' = IF variant = "monolith" THEN "readNumber" ELSE "open"
    /\ outcome' = outcome

\* the error of the handshake: log.Fatal(err) in main.go; in the refactored
\* program scrapeChannel returns it and main calls log.Fatalf
OnHandshakeError == Fatal

\* chromedp.Run(Navigate, WaitVisible): in main.go before the prompt, in the
\* refactored program the first step of scrapeChannel, whose error main
\* turns into log.Fatalf
Handshake ==
    /\ pc = "handshake"
    /\ \/ /\ pc' = IF variant = "monolith" THEN "readNumber" ELSE "open"
          /\ handshakeOk' = TRUE
          /\ UNCHANGED <<outcome, handshakeErr>>
       \/ /\ handshakeErr' = TRUE
          /\ handshakeOk' = handshakeOk
          /\ OnHandshakeError
    /\ UNCHANGED <<variant, now, scrollDuration, endTime, postSet,
                   contentList, idx, fileExists, file, fileState, prior,
                   firstSeen, failed, captured, captureErr, reported, stdin,
                   atCapture>>

AcceptedWithoutUpperEnd(scan) == ~scan.err /\ scan.number >= RangeLow

\* err == nil && number >= 1 && number <= 60
Accepted(scan) ==
    ~scan.err /\ scan.number >= RangeLow /\ scan.number <= RangeHigh

\* One turn of the loop of readNumber (main.go) and of readScrollDuration:
\* the prompt, fmt.Scanf and the test of what it returned. An accepted
\* number ends the loop and is returned; main.go computes the deadline from
\* it at once. Anything else prints "Invalid input" and the loop goes on.
\* Nothing reads standard input after the prompt, so what is left of it is
\* dropped. At the end of the input Scanf returns an error at every call
\* and the loop does not end.
ReadNumber ==
    /\ pc = "readNumber"
    /\ stdin # <<>>
    /\ IF Accepted(Head(stdin))
       THEN /\ scrollDuration' = Head(stdin).number
            /\ endTime' = IF variant = "monolith"
                          THEN now + Head(stdin).number
                          ELSE endTime
            /\ pc' = "mkdir"
            /\ stdin' = <<>>
       ELSE /\ stdin' = Tail(stdin)
            /\ UNCHANGED <<scrollDuration, endTime, pc>>
    /\ UNCHANGED <<variant, outcome, now, postSet, contentList, idx,
                   fileExists, file, fileState, prior, firstSeen, failed,
                   captured, captureErr, handshakeErr, reported, handshakeOk,
                   atCapture>>

CreateFolderIfNotExists ==
    /\ pc = "mkdir"
    /\ \/ /\ pc' = IF variant = "monolith" THEN "open" ELSE "handshake"
          /\ outcome' = outcome
       \/ Fatal
    /\ UNCHANGED <<variant, now, scrollDuration, endTime, postSet,
                   contentList, idx, fileExists, file, fileState, prior,
                   firstSeen, failed, captured, stdin, handshakeOk, atCapture,
                   captureErr, handshakeErr, reported>>

OpenTruncates(f) == <<>>

\* what the file holds once os.OpenFile(path, O_APPEND|O_CREATE|O_WRONLY)
\* has returned: what it held, nothing when it has just been created (the
\* flags do not include O_TRUNC)
OpenedContents(f) == f

\* os.OpenFile(path, O_APPEND|O_CREATE|O_WRONLY): creates the file when
\* there is none and keeps what it holds otherwise. The refactored program
\* computes the deadline after it.
OpenFile ==
    /\ pc = "open"
    /\ \/ /\ fileExists' = TRUE
          /\ file' = OpenedContents(file)
          /\ fileState' = "open"
          /\ endTime' = IF variant = "refactored" THEN now + scrollDuration
                        ELSE endTime
          /\ pc' = "loop"
          /\ outcome' = outcome
       \/ /\ Fatal
          /\ UNCHANGED <<fileExists, file, fileState, endTime>>
    /\ UNCHANGED <<variant, now, scrollDuration, postSet, contentList, idx,
                   prior, firstSeen, failed, captured, stdin, handshakeOk,
                   atCapture, captureErr, handshakeErr, reported>>

\* ------------------------------------------------------------------------
\* The collection loop
\* ------------------------------------------------------------------------
BeforeOrAt(t, end) == t <= end

\* for time.Now().Before(endTime)
Before(t, end) == t < end

\* the loop condition, read at a cycle boundary
LoopCheck ==
    /\ pc = "loop"
    /\ pc' = IF Before(now, endTime) THEN "capture" ELSE "finish"
    /\ UNCHANGED <<variant, outcome, now, scrollDuration, endTime, postSet,
                   contentList, idx, fileExists, file, fileState, prior,
                   firstSeen, failed, captured, stdin, handshakeOk, atCapture,
                   captureErr, handshakeErr, reported>>

\* history: the first-seen order after one more successful snapshot
RECURSIVE FirstSeenAfter(_, _)
FirstSeenAfter(seen, snap) ==
    IF snap = <<>> THEN seen
    ELSE FirstSeenAfter(IF Head(snap) \in Range(seen) THEN seen
                        ELSE Append(seen, Head(snap)),
                        Tail(snap))

\* what an error of the capture call does to the run: main.go calls
\* log.Fatal, scrapeChannel logs the error collectPosts returns and goes on
CaptureErrorIsFatal(v) == v = "monolith"

ItemsDespiteError == <<TextA>>

\* the items collectPosts goes through when the capture call failed: it
\* returns the error before its range loop
ItemsAfterFailedCapture == <<>>

\* chromedp.Run(ScrollIntoView, Sleep, Evaluate) of one cycle
Capture ==
    /\ pc = "capture"
    /\ captured' = TRUE
    /\ \/ /\ \E snap \in Snapshots :
                /\ contentList' = snap
                /\ firstSeen' = FirstSeenAfter(firstSeen, snap)
          /\ idx' = 1
          /\ pc' = "items"
          /\ atCapture' = [store |-> postSet, file |-> file, err |-> FALSE]
          /\ UNCHANGED <<outcome, captureErr>>
       \/ /\ captureErr' = TRUE
          /\ atCapture' = [store |-> postSet, file |-> file, err |-> TRUE]
          /\ IF CaptureErrorIsFatal(variant)
             THEN /\ Fatal
                  /\ UNCHANGED <<contentList, idx>>
             ELSE /\ contentList' = ItemsAfterFailedCapture
                  /\ idx' = 1
                  /\ pc' = "items"
                  /\ outcome' = outcome
          /\ firstSeen' = firstSeen
    /\ UNCHANGED <<variant, now, scrollDuration, endTime, postSet, fileExists,
                   file, fileState, prior, failed, handshakeErr, reported,
                   stdin, handshakeOk>>

NovelAlways(content, set) == TRUE

\* if !postSet[content]
Novel(content, set) == content \notin set

MarkSeenNever(set, content) == set

\* postSet[content] = true
MarkSeen(set, content) == set \cup {content}

UnmarkOnError(set, content, err) ==
    IF err = "none" THEN MarkSeen(set, content) ELSE set \ {content}

\* the store after processPost handled a novel text: it is marked before the
\* append and stays marked whatever the append returns
StoreAfterAppend(set, content, err) == MarkSeen(set, content)

\* The short writes of file.Write followed in the model: no byte, and the
\* bytes up to and including the first byte of the text.
ShortWrites(data) == {0, Len(RecordPrefix) + 1}

\* How the two writes of one append may end: both succeed; file.Write fails
\* after n of the bytes (n short of all of them); or file.Write succeeds and
\* file.WriteString("\n") fails.
WriteOutcomes(data) ==
    {[err |-> "none", n |-> Len(data)]}
        \cup {[err |-> "write", n |-> k] : k \in ShortWrites(data)}
        \cup {[err |-> "newline", n |-> Len(data)]}

\* the bytes one append leaves in the file
Written(data, w) ==
    IF w.err = "none" THEN data \o <<NL>> ELSE SubSeq(data, 1, w.n)

WritePostNoNewline(f, content, w) ==
    f \o SubSeq(Marshal(content), 1, w.n)

\* writePostToFile on a handle opened with O_APPEND
WritePostToFile(f, content, w) == f \o Written(Marshal(content), w)

\* one iteration of the range loop over contentList: processPost
ProcessPost ==
    /\ pc = "items"
    /\ idx <= Len(contentList)
    /\ LET content == contentList[idx]
       IN  IF Novel(content, postSet)
           THEN \E w \in WriteOutcomes(Marshal(content)) :
                    /\ w.err # "none" => Cardinality(failed) < MaxFailures
                    /\ postSet' = StoreAfterAppend(postSet, content, w.err)
                    /\ file' = WritePostToFile(file, content, w)
                    /\ failed' = IF w.err = "none" THEN failed
                                 ELSE failed \cup {content}
           ELSE UNCHANGED <<postSet, file, failed>>
    /\ idx' = idx + 1
    /\ UNCHANGED <<variant, pc, outcome, now, scrollDuration, endTime,
                   contentList, fileExists, fileState, prior, firstSeen,
                   captured, stdin, handshakeOk, atCapture, captureErr,
                   handshakeErr, reported>>

ReportAtTheDeadline ==
    /\ pc = "items"
    /\ idx > Len(contentList) \/ now >= endTime
    /\ reported' = Cardinality(postSet)
    /\ contentList' = <<>>
    /\ idx' = 1
    /\ atCapture' = [store |-> postSet, file |-> file, err |-> FALSE]
    /\ pc' = "loop"
    /\ UNCHANGED <<variant, outcome, now, scrollDuration, endTime, postSet,
                   fileExists, file, fileState, prior, firstSeen, failed,
                   captured, captureErr, handshakeErr, stdin, handshakeOk>>

\* the progress line that ends a cycle: len(postSet) and the time left;
\* contentList is a variable of the cycle and ends with it, and so does the
\* history of the cycle
Report ==
    /\ pc = "items"
    /\ idx > Len(contentList)
    /\ reported' = Cardinality(postSet)
    /\ contentList' = <<>>
    /\ idx' = 1
    /\ atCapture' = [store |-> postSet, file |-> file, err |-> FALSE]
    /\ pc' = "loop"
    /\ UNCHANGED <<variant, outcome, now, scrollDuration, endTime, postSet,
                   fileExists, file, fileState, prior, firstSeen, failed,
                   captured, captureErr, handshakeErr, stdin, handshakeOk>>

\* the loop ended: the function returns, the deferred file.Close() runs and
\* main returns
Finish ==
    /\ pc = "finish"
    /\ fileState' = "closed"
    /\ outcome' = "completed"
    /\ pc' = "exit"
    /\ UNCHANGED <<variant, now, scrollDuration, endTime, postSet,
                   contentList, idx, fileExists, file, prior, firstSeen,
                   failed, captured, stdin, handshakeOk, atCapture,
                   captureErr, handshakeErr, reported>>

\* a minute passes; the clock is followed up to the deadline
Tick ==
    /\ outcome = "running"
    /\ now < endTime
    /\ now' = now + 1
    /\ UNCHANGED <<variant, pc, outcome, scrollDuration, endTime, postSet,
                   contentList, idx, fileExists, file, fileState, prior,
                   firstSeen, failed, captured, stdin, handshakeOk, atCapture,
                   captureErr, handshakeErr, reported>>

Step ==
    \/ LoadEnv
    \/ NewConfig
    \/ Handshake
    \/ ReadNumber
    \/ CreateFolderIfNotExists
    \/ OpenFile
    \/ LoopCheck
    \/ Capture
    \/ ProcessPost
    \/ Report
    \/ Finish

Next == Step \/ Tick

Spec == Init /\ [][Next]_vars

\* every call of the run returns and the clock advances
FairSpec == Spec /\ WF_vars(Step) /\ WF_vars(Tick)

\* the run up to the loop, for every answer the prompt may get
PromptNext ==
    \/ LoadEnv
    \/ NewConfig
    \/ Handshake
    \/ ReadNumber
    \/ CreateFolderIfNotExists
    \/ OpenFile

PromptSpec == InitWith(PromptStdins) /\ [][PromptNext]_vars

\* ------------------------------------------------------------------------
\* Vocabulary of the properties
\* ------------------------------------------------------------------------
NoTwoEqual(s) == \A i, j \in DOMAIN s : i # j => s[i] # s[j]

\* position of x in a sequence without repetition that holds it
PosIn(s, x) == CHOOSE i \in DOMAIN s : s[i] = x

\* a is b with some elements left out (b without repetition)
IsSubsequence(a, b) ==
    /\ NoTwoEqual(a)
    /\ Range(a) \subseteq Range(b)
    /\ \A i, j \in DOMAIN a : i < j => PosIn(b, a[i]) < PosIn(b, a[j])

\* the bytes the run added after what the file held when it was opened
RunBytes == SubSeq(file, Len(prior) + 1, Len(file))

\* s without its first n elements
DropFirst(s, n) == SubSeq(s, n + 1, Len(s))

\* how many records each content of PriorContents holds
PriorRecordCount == [p \in PriorContents |-> Len(Records(p))]

\* the records of the file that were not in it before the run
NewRecords == DropFirst(Records(file), PriorRecordCount[prior])

\* how often the bytes pat occur in f
Occurrences(f, pat) ==
    Cardinality({i \in 1..(Len(f) - Len(pat) + 1) :
                    \A k \in DOMAIN pat : f[i + k - 1] = pat[k]})

\* the complete record of a text: its JSON object and the newline
RecordOf(t) == Marshal(t) \o <<NL>>

\* between two cycles, or after the last one
AtCycleBoundary == pc \in {"loop", "finish"} \/ outcome = "completed"

\* every line of f is a record and nothing follows the last newline
WellFormed(f) == Fragment(f) = <<>> /\ Len(Records(f)) = Len(Lines(f))

\* the bytes added to the file since the capture call of the cycle in
\* progress was issued
CycleBytes == SubSeq(file, Len(atCapture.file) + 1, Len(file))

\* ------------------------------------------------------------------------
\* C1  Uniqueness
\* ------------------------------------------------------------------------
\* C1 as stated: in every reachable state the output file holds no two
\* records with the same text.
C1_FileHasNoTwoRecordsOfOneText == NoTwoEqual(Records(file))

\* C1 as amended: in every reachable state, whatever the snapshots repeat
\* and whichever appends fail, the records the run added to the file hold
\* no two with the same text; so a file that was new or empty when the run
\* opened it holds no two records with the same text.
C1_RunAddsNoTwoRecordsOfOneText ==
    LET all == Records(file)
    IN  /\ NoTwoEqual(DropFirst(all, PriorRecordCount[prior]))
        /\ prior = <<>> => NoTwoEqual(all)

\* a snapshot that repeats a text has been processed in a run with a failed
\* append, and the text has its record
C1_Witness ==
    /\ pc = "items"
    /\ contentList = <<TextA, TextA>>
    /\ idx = 3
    /\ failed # {}
    /\ TextA \in Range(NewRecords)
    /\ Len(NewRecords) >= 2

\* ------------------------------------------------------------------------
\* C2  Monotonic capture
\* ------------------------------------------------------------------------
\* C2 as stated: at a cycle boundary every text first seen in some snapshot
\* has been written exactly once, and the records the run wrote are those
\* texts in first-seen order.
C2_EveryFirstSeenTextIsWritten == AtCycleBoundary => NewRecords = firstSeen

\* C2 as amended: at a cycle boundary the complete record of a text (its
\* JSON object and its newline) has been written exactly once when the text
\* was in a successful snapshot and its append did not fail, and never
\* otherwise; the records that the run added are in first-seen order; and
\* they are exactly the first-seen texts, each once, when no append failed
\* and the file did not end in an unterminated line when it was opened.
C2_FirstSeenTextIsWrittenOnceUnlessAppendFails ==
    AtCycleBoundary =>
        /\ \A t \in PostTexts :
              Occurrences(RunBytes, RecordOf(t)) =
                  IF t \in Range(firstSeen) \ failed THEN 1 ELSE 0
        /\ IsSubsequence(NewRecords, firstSeen)
        /\ (failed = {} /\ Fragment(prior) = <<>>) => NewRecords = firstSeen

\* earlier cycles have seen A, B and C, in this order, the cycle in progress
\* has processed the snapshot [C], and the new file holds the three records
\* in this order
C2_Witness ==
    /\ pc = "items"
    /\ contentList = <<TextC>>
    /\ idx = 2
    /\ reported = 3
    /\ prior = <<>>
    /\ firstSeen = <<TextA, TextB, TextC>>
    /\ file = RecordOf(TextA) \o RecordOf(TextB) \o RecordOf(TextC)

\* ------------------------------------------------------------------------
\* C3  Store/file correspondence
\* ------------------------------------------------------------------------
\* C3 as stated: at a cycle boundary the records the run wrote are exactly
\* one for each text of the store, in first-seen order.
C3_OneRecordForEachStoredText ==
    AtCycleBoundary =>
        /\ \A t \in postSet :
              Cardinality({i \in DOMAIN NewRecords : NewRecords[i] = t}) = 1
        /\ Range(NewRecords) \subseteq postSet
        /\ IsSubsequence(NewRecords, firstSeen)

\* C3 as amended: at a cycle boundary the records the run added to the
\* file, read line by line, are records of texts of the store whose append
\* did not fail, at most one for each, in first-seen order; a text of the
\* store has no record only if its append failed, or if its complete record
\* was written after an unterminated line (left by a failed append, or
\* there when the file was opened) and so is not a line of its own.
C3_RecordsAreOfStoredTextsInOrder ==
    AtCycleBoundary =>
        /\ Range(NewRecords) \subseteq postSet \ failed
        /\ IsSubsequence(NewRecords, firstSeen)
        /\ \A t \in postSet \ Range(NewRecords) :
              \/ t \in failed
              \/ /\ Occurrences(RunBytes, RecordOf(t)) = 1
                 /\ failed # {} \/ Fragment(prior) # <<>>

\* at a boundary: an append failed, a stored text whose append succeeded
\* has no line of its own, and another one has its record
C3_Witness ==
    /\ pc = "loop"
    /\ failed # {}
    /\ NewRecords # <<>>
    /\ \E t \in postSet \ failed : t \notin Range(NewRecords)

\* ------------------------------------------------------------------------
\* C4  Fatal snapshot failure
\* ------------------------------------------------------------------------
\* C4 as stated: once a capture call has failed the run has ended with a
\* failure outcome (so no later capture, no later append, no Completed).
C4_CaptureFailureAbortsTheRun == captureErr => outcome = "fatal"

C6_FileHoldsOnlyCompleteRecords == WellFormed(prior) => WellFormed(file)

\* ------------------------------------------------------------------------
\* C7  Bounded runtime
\* ------------------------------------------------------------------------
\* the run is in the collection loop
InLoop == pc \in {"loop", "capture", "items"}

\* C7 as stated, on the runs that end: a run that entered the loop leaves it
\* only to Completed, and not before the deadline.
C7_LoopEndsOnlyCompletedAtTheDeadline ==
    (pc = "exit" /\ fileState # "unopened") =>
        (outcome = "completed" /\ now >= endTime)

\* C7 as amended: when every call returns and the clock advances, a run in
\* the loop eventually ends: it reaches Completed, unless a capture call
\* fails in main.go, where the run aborts at once, before the deadline or
\* after it; it reaches Completed only when the deadline has passed; and at
\* a cycle boundary where the deadline has passed it starts no other cycle,
\* whatever the snapshots returned.
C7_LoopEndsAtTheFirstBoundaryAfterTheDeadline ==
    /\ InLoop ~> \/ outcome = "completed"
                 \/ variant = "monolith" /\ captureErr /\ outcome = "fatal"
    /\ [](pc = "finish" \/ outcome = "completed" => now >= endTime)
    /\ [][pc = "loop" /\ now >= endTime => pc' \in {"loop", "finish"}]_vars
    /\ [][pc = "loop" /\ now < endTime => pc' \in {"loop", "capture"}]_vars

\* a run has completed after the deadline passed during its last cycle,
\* which brought two texts
C7_Witness ==
    /\ outcome = "completed"
    /\ now = endTime
    /\ captured
    /\ Cardinality(postSet) >= 2

\* ------------------------------------------------------------------------
\* C8  Handshake failure
\* ------------------------------------------------------------------------
\* C8: once the handshake has failed the run has ended with a fatal failure
\* and it never opened or created the output file, issued no capture call
\* and added nothing to the store.
C8_HandshakeFailureEndsTheRunBeforeCollecting ==
    handshakeErr =>
        /\ outcome = "fatal"
        /\ pc = "exit"
        /\ fileState = "unopened"
        /\ fileExists = (prior # <<>>)
        /\ file = prior
        /\ ~captured
        /\ postSet = {}
        /\ firstSeen = <<>>

\* the handshake failed where there was no output file
C8_Witness == handshakeErr /\ prior = <<>> /\ ~fileExists

\* ------------------------------------------------------------------------
\* C9  Sink release on every exit path
\* ------------------------------------------------------------------------
\* C9 as stated: a run that opened the output file has closed it when the
\* process ends.
C9_OpenedFileIsClosedAtExit ==
    (pc = "exit" /\ fileState # "unopened") => fileState = "closed"

\* ------------------------------------------------------------------------
\* C10  Item Store invariant
\* ------------------------------------------------------------------------
\* the step processes a text that is in the store
ProcessesPresentText ==
    /\ pc = "items"
    /\ idx <= Len(contentList)
    /\ contentList[idx] \in postSet
    /\ idx' = idx + 1

\* C10: the store is empty at the start of the run; no step removes an
\* entry; at every cycle boundary the store is the set of the texts of the
\* successful snapshots so far; and processing a text that is in the store
\* changes neither the store nor the file.
C10_StoreIsTheSetOfSeenTexts ==
    /\ postSet = {}
    /\ [][postSet \subseteq postSet']_vars
    /\ [](AtCycleBoundary => postSet = Range(firstSeen))
    /\ [][ProcessesPresentText => postSet' = postSet /\ file' = file]_vars

\* a cycle that began with two texts in the store has processed a snapshot
\* that holds one of them twice
C10_Witness ==
    /\ pc = "items"
    /\ reported = 2
    /\ contentList = <<TextB, TextB>>
    /\ idx = 3
    /\ postSet = {TextA, TextB}

\* ------------------------------------------------------------------------
\* C11  Cycle-granular cancellation
\* ------------------------------------------------------------------------
\* C11: the deadline is read only at a cycle boundary. The loop is left
\* only from a boundary; a capture call is followed by the items of its
\* snapshot (or by the handling of its error) and the items by the progress
\* line, whatever the clock shows; when the cycle ends every item of its
\* snapshot is in the store, the complete record of every item that was
\* not in the store before the cycle and whose append did not fail has been
\* appended once in the cycle, and no record of an item that was in the
\* store; and, when every call returns, a cycle in which the deadline has
\* passed during the capture call or during the items does reach its end.
C11_CycleRunsToItsEndPastTheDeadline ==
    /\ [][pc' = "finish" => pc \in {"loop", "finish"}]_vars
    /\ [][pc = "capture" /\ pc' # "capture" =>
             pc' = "items" \/ (atCapture'.err /\ outcome' = "fatal")]_vars
    /\ [][pc = "items" /\ pc' # "items" =>
             /\ pc' = "loop"
             /\ idx > Len(contentList)
             /\ Range(contentList) \subseteq postSet
             /\ \A t \in Range(contentList) :
                   Occurrences(CycleBytes, RecordOf(t)) =
                       IF t \in atCapture.store \cup failed THEN 0 ELSE 1]_vars
    /\ (pc = "capture" /\ now >= endTime) ~>
           (pc = "items" \/ (atCapture.err /\ outcome = "fatal"))
    /\ (pc = "items" /\ now >= endTime) ~> pc = "loop"

\* the deadline has passed in a cycle that began with an empty store, and
\* the two items of its snapshot have been processed and have their records
C11_Witness ==
    /\ pc = "items"
    /\ now >= endTime
    /\ atCapture.store = {}
    /\ contentList = <<TextA, TextB>>
    /\ idx = 3
    /\ NewRecords = <<TextA, TextB>>

\* ------------------------------------------------------------------------
\* C12  Empty snapshot
\* ------------------------------------------------------------------------
\* the capture call of the cycle in progress returned a snapshot, and every
\* item of it (there may be none) was in the store when the call was issued
OnlyKnownItems ==
    /\ pc = "items"
    /\ ~atCapture.err
    /\ Range(contentList) \subseteq atCapture.store

\* C12: throughout a cycle whose snapshot is empty or holds only items that
\* were in the store, the store and the file are what they were when the
\* cycle began and the run goes on; the cycle ends at a boundary, with the
\* store and the file unchanged, the count of the store reported and no
\* error recorded; and from a boundary where the deadline has not passed
\* the run goes to the next capture call and nowhere else.
C12_CycleWithoutNewItemsChangesNothing ==
    /\ [](OnlyKnownItems =>
             /\ postSet = atCapture.store
             /\ file = atCapture.file
             /\ outcome = "running")
    /\ [][OnlyKnownItems /\ pc' # "items" =>
             /\ pc' = "loop"
             /\ outcome' = "running"
             /\ postSet' = atCapture.store
             /\ file' = atCapture.file
             /\ reported' = Cardinality(atCapture.store)
             /\ UNCHANGED <<failed, captureErr>>]_vars
    /\ [][pc = "loop" /\ now < endTime /\ pc' # "loop" => pc' = "capture"]_vars

\* a cycle that began with a text in the store got an empty snapshot before
\* the deadline
C12_Witness ==
    /\ pc = "items"
    /\ ~atCapture.err
    /\ contentList = <<>>
    /\ atCapture.store = {TextA}
    /\ now < endTime

\* ------------------------------------------------------------------------
\* C13  Run state machine
\* ------------------------------------------------------------------------
\* The state of the run in the words of the design: Collecting is the loop,
\* Completed begins when the loop condition has been found false, Failed is
\* the end by a fatal error, Idle is everything before the loop.
RunState ==
    IF outcome = "fatal" THEN "Failed"
    ELSE IF pc = "finish" \/ outcome = "completed" THEN "Completed"
    ELSE IF InLoop THEN "Collecting"
    ELSE "Idle"

\* C13: the run starts Idle; it changes state only from Idle to Collecting,
\* from Collecting to Completed, or from one of these two to the failure of
\* a fatal error; it enters Collecting only when the handshake has returned
\* without error; it enters Completed only at a cycle boundary where the
\* deadline has passed; and once Completed it stays Completed, issues no
\* capture call, adds nothing to the store and appends nothing to the file.
C13_IdleCollectingCompleted ==
    /\ RunState = "Idle"
    /\ [][RunState' # RunState =>
             <<RunState, RunState'>> \in
                 {<<"Idle", "Collecting">>, <<"Collecting", "Completed">>,
                  <<"Idle", "Failed">>, <<"Collecting", "Failed">>}]_vars
    /\ [][RunState = "Idle" /\ RunState' = "Collecting" =>
             handshakeOk /\ ~handshakeErr /\ ~captured]_vars
    /\ [][RunState = "Collecting" /\ RunState' = "Completed" =>
             pc = "loop" /\ now >= endTime]_vars
    /\ [][RunState = "Completed" =>
             /\ RunState' = "Completed"
             /\ pc' # "capture"
             /\ UNCHANGED <<postSet, file, atCapture, contentList>>]_vars

\* a run that collected two texts is Completed and has returned
C13_Witness ==
    /\ RunState = "Completed"
    /\ pc = "exit"
    /\ handshakeOk
    /\ Cardinality(postSet) = 2
    /\ fileState = "closed"

\* ------------------------------------------------------------------------
\* C14  No truncation on reuse of a path
\* ------------------------------------------------------------------------
\* C14: in every reachable state what the output path held before the run
\* is a prefix of the file, and a path that named a file still names one;
\* and every step of the run, the opening of the file included, leaves the
\* bytes the file held in place and at most adds bytes after them.
C14_EarlierContentStaysAPrefix ==
    /\ [](/\ Len(file) >= Len(prior)
          /\ SubSeq(file, 1, Len(prior)) = prior
          /\ prior # <<>> => fileExists)
    /\ [][/\ Len(file') >= Len(file)
          /\ SubSeq(file', 1, Len(file)) = file]_vars

\* a run that opened a file holding two lines has completed after it added
\* a record
C14_Witness ==
    /\ prior = Marshal(TextB) \o <<NL>> \o Marshal(TextA)
    /\ outcome = "completed"
    /\ Len(file) >= Len(prior) + Len(RecordOf(TextC))

\* ------------------------------------------------------------------------
\* C15  Progress count
\* ------------------------------------------------------------------------
\* how many complete records of the texts are among the bytes f
RECURSIVE CountRecords(_, _)
CountRecords(f, texts) ==
    IF texts = {} THEN 0
    ELSE LET t == CHOOSE x \in texts : TRUE
         IN  Occurrences(f, RecordOf(t)) + CountRecords(f, texts \ {t})

\* the number of complete records the run has written to the file
WrittenRecords == CountRecords(RunBytes, PostTexts)

\* C15: the count changes only with the progress line that ends a cycle,
\* every cycle that ends reports the size of the store, and the count
\* never goes down; between that line and the next capture call the count
\* is the size of the store, it exceeds the number of complete records the
\* run has written by the number of texts whose append failed (so it is
\* never smaller, and larger exactly when an append failed), and it is not
\* smaller than the number of records the run added as lines of the file.
C15_CountIsTheStoreSize ==
    /\ [][reported' # reported => pc = "items" /\ pc' = "loop"]_vars
    /\ [][pc = "items" /\ pc' = "loop" =>
             /\ reported' = Cardinality(postSet)
             /\ reported' >= reported]_vars
    /\ [](pc \in {"loop", "finish"} /\ reported # -1 =>
             /\ reported = Cardinality(postSet)
             /\ reported = WrittenRecords + Cardinality(failed)
             /\ reported > WrittenRecords <=> failed # {}
             /\ reported >= Len(NewRecords))

\* a cycle has ended with three texts in the store, one of which failed
\* to be appended
C15_Witness ==
    /\ pc = "loop"
    /\ reported = 3
    /\ Cardinality(failed) = 1
    /\ WrittenRecords = 2

\* ------------------------------------------------------------------------
\* C16  Failed capture changes nothing
\* ------------------------------------------------------------------------
\* C16: the step in which a capture call returns an error changes neither
\* the store nor the file; as long as the cycle of that call lasts no item
\* is processed and the store and the file are what they were when the
\* call was issued; and when the cycle ends, where the run goes on, they
\* are still the same.
C16_FailedCaptureLeavesStoreAndFile ==
    /\ [][pc = "capture" /\ atCapture'.err =>
             postSet' = postSet /\ file' = file]_vars
    /\ [](atCapture.err =>
             /\ postSet = atCapture.store
             /\ file = atCapture.file
             /\ pc = "items" => contentList = <<>>)
    /\ [][atCapture.err /\ pc = "items" /\ pc' # "items" =>
             /\ pc' = "loop"
             /\ postSet' = atCapture.store
             /\ file' = atCapture.file]_vars

\* the capture call of a cycle that began with two texts in the store has
\* failed and the run goes on
C16_Witness ==
    /\ atCapture.err
    /\ pc = "items"
    /\ outcome = "running"
    /\ postSet = {TextA, TextB}

\* ------------------------------------------------------------------------
\* C17  Deadline bounds
\* ------------------------------------------------------------------------
\* the prompt has returned and the run has not ended since
PromptReturned ==
    \/ pc \in {"mkdir", "open", "loop"}
    \/ variant = "refactored" /\ pc = "handshake"

\* C17: the scroll duration is 0 until the prompt returns and a whole
\* number of minutes from 1 to 60 from then on; it is set once, to the
\* number that was read without error; an answer that cannot be read or is
\* outside 1..60 leaves the run at the prompt, which reads the next answer;
\* and the deadline the loop starts with is that many minutes after the
\* time it was computed at.
C17_ScrollDurationIsFrom1To60 ==
    /\ [](scrollDuration \in {0} \cup 1..60)
    /\ [](PromptReturned => scrollDuration \in 1..60)
    /\ [](pc = "loop" => endTime - now = scrollDuration)
    /\ [][scrollDuration' # scrollDuration =>
             /\ scrollDuration = 0
             /\ pc = "readNumber" /\ pc' = "mkdir"
             /\ ~Head(stdin).err
             /\ scrollDuration' = Head(stdin).number]_vars
    /\ [][/\ pc = "readNumber"
          /\ stdin # <<>>
          /\ Head(stdin).err \/ Head(stdin).number \notin 1..60
          => /\ pc' = "readNumber"
             /\ scrollDuration' = 0
             /\ stdin' = Tail(stdin)]_vars

\* the run reached the loop with the longest duration of the range
C17_Witness ==
    /\ pc = "loop"
    /\ scrollDuration = 60
    /\ endTime = now + 60

====
